---- MODULE Spec2Model ----
(***************************************************************************)
(* Salesforce "add to permission set" action.                              *)
(*                                                                         *)
(* Two variants of the action live in the repository:                      *)
(*   - src/src/script.mjs, which takes its base URL and Authorization      *)
(*     header from the shared helpers getBaseURL / getAuthorizationHeader  *)
(*     (bundled in src/unnamed/part_000), modelled by Spec;                *)
(*   - src/unnamed/part_001, which validates its parameters itself and     *)
(*     authenticates with SALESFORCE_ACCESS_TOKEN, modelled by SpecLegacy. *)
(*                                                                         *)
(* One run of invoke is a sequence of steps separated by the awaited HTTP  *)
(* responses.  Each action is the code that runs between two awaits; the   *)
(* remote answers are chosen nondeterministically.                         *)
(***************************************************************************)
EXTENDS Integers, Sequences, FiniteSets, TLC

(***************************************************************************)
(* JavaScript values.  Strings are TLA+ strings; undefined and null are    *)
(* values of their own, told apart from every string the model uses.       *)
(***************************************************************************)
Undefined == "<undefined>"
Null == "<null>"

\* JS truthiness of a string, undefined or null: undefined, null and "" are falsy.
Truthy(v) == v # Undefined /\ v # Null /\ v # ""

\* Template-literal interpolation ${v}.
Interp(v) == IF v = Undefined THEN "undefined" ELSE IF v = Null THEN "null" ELSE v

\* a || b
OrElse(a, b) == IF Truthy(a) THEN a ELSE b

\* The i-th character of s, as a one-character string.
CharAt(s, i) == SubSeq(s, i, i)

\* String.prototype.startsWith
StartsWith(s, p) == Len(s) >= Len(p) /\ SubSeq(s, 1, Len(p)) = p

\* String.prototype.endsWith
EndsWith(s, p) == Len(s) >= Len(p) /\ SubSeq(s, Len(s) - Len(p) + 1, Len(s)) = p

\* String.prototype.includes
Includes(s, p) == \E i \in 1..(Len(s) - Len(p) + 1) : SubSeq(s, i, i + Len(p) - 1) = p

UpperChars == "ABCDEFGHIJKLMNOPQRSTUVWXYZ"
LowerChars == "abcdefghijklmnopqrstuvwxyz"
DigitChars == "0123456789"

\* Position of the one-character string c in alphabet, 0 when it is not there.
IndexIn(alphabet, c) ==
    IF \E i \in 1..Len(alphabet) : CharAt(alphabet, i) = c
    THEN CHOOSE i \in 1..Len(alphabet) : CharAt(alphabet, i) = c
    ELSE 0

LowerChar(c) ==
    IF IndexIn(UpperChars, c) > 0 THEN CharAt(LowerChars, IndexIn(UpperChars, c)) ELSE c

RECURSIVE ToLowerCase(_)
\* String.prototype.toLowerCase (ASCII)
ToLowerCase(s) ==
    IF s = "" THEN "" ELSE LowerChar(CharAt(s, 1)) \o ToLowerCase(Tail(s))

(***************************************************************************)
(* encodeURIComponent: letters, digits and - _ . ! ~ * ' ( ) are kept,     *)
(* every other character becomes %XX (ASCII only).                         *)
(***************************************************************************)
\* The printable ASCII characters 32..95 and 97..126 (96, the backquote, cannot be
\* written in a TLA+ string and is in no string of the model).
AsciiLow == " !\"#$%&'()*+,-./0123456789:;<=>?@ABCDEFGHIJKLMNOPQRSTUVWXYZ[\\]^_"
AsciiHigh == "abcdefghijklmnopqrstuvwxyz{|}~"

\* ASCII code of a printable one-character string.
CharCode(c) ==
    IF IndexIn(AsciiLow, c) > 0 THEN IndexIn(AsciiLow, c) + 31 ELSE IndexIn(AsciiHigh, c) + 96

HexDigits == "0123456789ABCDEF"

PercentEncode(c) ==
    "%" \o CharAt(HexDigits, (CharCode(c) \div 16) + 1)
        \o CharAt(HexDigits, (CharCode(c) % 16) + 1)

UriUnreserved == UpperChars \o LowerChars \o DigitChars \o "-_.!~*'()"

RECURSIVE encodeURIComponent(_)
encodeURIComponent(s) ==
    IF s = "" THEN ""
    ELSE (IF IndexIn(UriUnreserved, CharAt(s, 1)) > 0
          THEN CharAt(s, 1)
          ELSE PercentEncode(CharAt(s, 1)))
         \o encodeURIComponent(Tail(s))

(***************************************************************************)
(* btoa: base64 of an ASCII string.                                        *)
(***************************************************************************)
Base64Chars == UpperChars \o LowerChars \o DigitChars \o "+/"

B64(n) == CharAt(Base64Chars, n + 1)

RECURSIVE btoa(_)
btoa(s) ==
    IF s = "" THEN ""
    ELSE LET a == CharCode(CharAt(s, 1))
             b == IF Len(s) >= 2 THEN CharCode(CharAt(s, 2)) ELSE 0
             c == IF Len(s) >= 3 THEN CharCode(CharAt(s, 3)) ELSE 0
             n == a * 65536 + b * 256 + c
         IN  B64(n \div 262144)
             \o B64((n \div 4096) % 64)
             \o (IF Len(s) >= 2 THEN B64((n \div 64) % 64) ELSE "=")
             \o (IF Len(s) >= 3 THEN B64(n % 64) ELSE "=")
             \o (IF Len(s) > 3 THEN btoa(Tail(Tail(Tail(s)))) ELSE "")

(***************************************************************************)
(* URLSearchParams.toString(): application/x-www-form-urlencoded.  Letters,*)
(* digits and * - . _ are kept, a space becomes +, the rest becomes %XX.   *)
(***************************************************************************)
FormUnreserved == UpperChars \o LowerChars \o DigitChars \o "*-._"

RECURSIVE FormEncode(_)
FormEncode(s) ==
    IF s = "" THEN ""
    ELSE (IF IndexIn(FormUnreserved, CharAt(s, 1)) > 0 THEN CharAt(s, 1)
          ELSE IF CharAt(s, 1) = " " THEN "+"
          ELSE PercentEncode(CharAt(s, 1)))
         \o FormEncode(Tail(s))

(***************************************************************************)
(* HTTP.  A request is what fetch() is called with; a response is what the *)
(* awaited fetch resolves to.  Response.ok is status in 200..299.          *)
(***************************************************************************)
Request(method, url, authorization, contentType, body) ==
    [method |-> method, url |-> url, authorization |-> authorization,
     accept |-> "application/json", contentType |-> contentType, body |-> body]

StatusText(status) ==
    CASE status = 200 -> "OK"
      [] status = 201 -> "Created"
      [] status = 204 -> "No Content"
      [] status = 400 -> "Bad Request"
      [] status = 401 -> "Unauthorized"
      [] status = 403 -> "Forbidden"
      [] status = 404 -> "Not Found"
      [] status = 429 -> "Too Many Requests"
      [] status = 500 -> "Internal Server Error"
      [] status = 502 -> "Bad Gateway"
      [] status = 503 -> "Service Unavailable"
      [] status = 504 -> "Gateway Timeout"
      [] OTHER -> ""

Ok(status) == status >= 200 /\ status <= 299

(***************************************************************************)
(* Bounds and input sets.                                                  *)
(***************************************************************************)
\* Longest records list in a user-lookup answer.
MaxRecords == 2
\* Longest error array in a 400 answer of the assignment POST.
MaxErrors == 2

UsernameValues == {Undefined, "a+b@x.io"}
PermissionSetIdValues == {Undefined, "0PS1"}
ParamAddressValues == {Undefined, "https://p.sf.test/"}
EnvAddressValues == {Undefined, "https://e.sf.test"}
BearerValues == {Undefined, "tok", "Bearer pre"}
\* User ids, in ascending order.
UserIds == <<"005A", "005B">>
AssignmentIdValues == {"0PaX"}

\* Sequences over S of length 0..n.
SeqUpTo(S, n) == UNION {[1..k -> S] : k \in 0..n}

\* Environment values of the OAuth2 client-credentials scheme.
OAuthEnv(tokenUrl, clientId, authStyle, scope, audience) ==
    [OAUTH2_CLIENT_CREDENTIALS_TOKEN_URL |-> tokenUrl,
     OAUTH2_CLIENT_CREDENTIALS_CLIENT_ID |-> clientId,
     OAUTH2_CLIENT_CREDENTIALS_AUTH_STYLE |-> authStyle,
     OAUTH2_CLIENT_CREDENTIALS_SCOPE |-> scope,
     OAUTH2_CLIENT_CREDENTIALS_AUDIENCE |-> audience]

NoOAuthEnv == OAuthEnv(Undefined, Undefined, Undefined, Undefined, Undefined)

OAuthEnvs ==
    { NoOAuthEnv,
      OAuthEnv("https://idp.test/token", "cid", Undefined, Undefined, Undefined),
      OAuthEnv("https://idp.test/token", "cid", "InParams", "api full", "sf"),
      OAuthEnv(Undefined, "cid", Undefined, Undefined, Undefined),
      OAuthEnv("https://idp.test/token", Undefined, Undefined, Undefined, Undefined) }

\* The records lists of a user-lookup result: the query is ORDER BY Id ASC and
\* ids are unique, so a list is strictly ascending.
RecordLists ==
    LET idx == {l \in SeqUpTo(1..Len(UserIds), MaxRecords) :
                   \A i \in 1..(Len(l) - 1) : l[i] < l[i + 1]}
    IN  {[i \in 1..Len(l) |-> [Id |-> UserIds[l[i]]]] : l \in idx}

\* Answers to the user lookup: non-ok, ok without a records field, ok with records.
LookupResponse(status, hasRecords, records) ==
    [status |-> status, hasRecords |-> hasRecords, records |-> records]

LookupResponses ==
    {LookupResponse(st, FALSE, <<>>) : st \in {200, 401, 403, 404, 429, 503}}
    \cup {LookupResponse(200, TRUE, rs) : rs \in RecordLists}

\* Elements of the error array of a 400 answer.
ApiErrors ==
    { [errorCode |-> "DUPLICATE_VALUE", message |-> "Already assigned"],
      [errorCode |-> "REQUIRED_FIELD_MISSING", message |-> "Missing required field"],
      [errorCode |-> "INVALID_OPERATION", message |-> "DUPLICATE entry"],
      [errorCode |-> "INVALID_OPERATION", message |-> "is a duplicate"],
      [errorCode |-> "UNKNOWN_EXCEPTION", message |-> Undefined] }

\* Answers to the assignment POST: 201 with the new id, 400 with an error array,
\* 400 with a JSON body that is not an array, and statuses without a body.
PostResponse(status, id, isArray, errors) ==
    [status |-> status, id |-> id, isArray |-> isArray, errors |-> errors]

PostResponses ==
    {PostResponse(201, id, FALSE, <<>>) : id \in AssignmentIdValues}
    \cup {PostResponse(400, Undefined, TRUE, es) : es \in SeqUpTo(ApiErrors, MaxErrors)}
    \cup {PostResponse(400, Undefined, FALSE, <<>>)}
    \cup {PostResponse(st, Undefined, FALSE, <<>>) : st \in {200, 401, 500, 502, 503, 504}}

\* Answers of the OAuth2 token endpoint.
TokenResponse(status, isJson, text, accessToken) ==
    [status |-> status, isJson |-> isJson, text |-> text, access_token |-> accessToken]

TokenResponses ==
    { TokenResponse(200, TRUE, "", "at1"),
      TokenResponse(200, TRUE, "", Undefined),
      TokenResponse(401, TRUE, "{\"error\":\"invalid_client\"}", Undefined),
      TokenResponse(503, FALSE, "Service Unavailable", Undefined) }

(***************************************************************************)
(* State.                                                                  *)
(***************************************************************************)
VARIABLES
    params,              \* the params object invoke is called with
    secrets,             \* context.secrets
    environment,         \* context.environment
    pc,                  \* where the run of invoke stands
    baseUrl,             \* invoke's local baseUrl
    authHeader,          \* invoke's local authHeader
    userId,              \* invoke's local userId
    requests,            \* the fetch() calls made so far, in order
    tokenResponse,       \* the answer of the OAuth2 token endpoint
    userResponse,        \* invoke's local userResponse
    assignmentResponse,  \* invoke's local assignmentResponse
    result,              \* the object invoke returned
    error,               \* the message of the error invoke threw
    recovery,            \* what the error handler did with that error
    halted,              \* the object the halt handler returned
    crm,                 \* the CRM behind fetch: its stored assignments, its last answer
    runs                 \* the outcomes of the earlier runs of invoke, in order

vars == <<params, secrets, environment, pc, baseUrl, authHeader, userId, requests,
          tokenResponse, userResponse, assignmentResponse, result, error,
          recovery, halted, crm, runs>>

NoResponse == [status |-> 0]
NoResult == [status |-> "none"]
NoError == Undefined
NoRecovery == [tag |-> "none"]
NoCrm == [assignments |-> <<>>, processed |-> 0, answer |-> NoResponse]

\* Outcomes of a helper: it returns a value, throws, or awaits a fetch.
Return(v) == [tag |-> "return", value |-> v]
Throw(message) == [tag |-> "throw", value |-> message]
Await(request) == [tag |-> "await", request |-> request]

(***************************************************************************)
(* The shared helpers (bundled in src/unnamed/part_000).                   *)
(***************************************************************************)
NoUrlMessage == "No URL specified. Provide address parameter or ADDRESS environment variable"

\* Mutant: a missing address is not rejected.
getBaseURL_Unchecked(p, env) ==
    LET address == Interp(OrElse(p.address, env.ADDRESS))
    IN  Return(IF EndsWith(address, "/")
               THEN SubSeq(address, 1, Len(address) - 1)
               ELSE address)

\* Mutant: the trailing slash is kept.
getBaseURL_KeepSlash(p, env) ==
    LET address == OrElse(p.address, env.ADDRESS)
    IN  IF ~Truthy(address) THEN Throw(NoUrlMessage) ELSE Return(address)

getBaseURL(p, env) ==
    LET address == OrElse(p.address, env.ADDRESS)
    IN  IF ~Truthy(address)
        THEN Throw(NoUrlMessage)
        ELSE Return(IF EndsWith(address, "/")
                    THEN SubSeq(address, 1, Len(address) - 1)
                    ELSE address)

\* Members of the URLSearchParams of the token request, joined by &.
RECURSIVE JoinParams(_)
JoinParams(pairs) ==
    IF pairs = <<>> THEN ""
    ELSE FormEncode(pairs[1][1]) \o "=" \o FormEncode(pairs[1][2])
         \o (IF Len(pairs) > 1 THEN "&" \o JoinParams(Tail(pairs)) ELSE "")

\* getClientCredentialsToken up to its fetch of the token endpoint.
getClientCredentialsToken(config) ==
    IF ~Truthy(config.tokenUrl) \/ ~Truthy(config.clientId) \/ ~Truthy(config.clientSecret)
    THEN Throw("OAuth2 Client Credentials flow requires tokenUrl, clientId, and clientSecret")
    ELSE LET inParams == config.authStyle = "InParams"
             pairs == <<(<<"grant_type", "client_credentials">>)>>
                      \o (IF Truthy(config.scope) THEN <<(<<"scope", config.scope>>)>> ELSE <<>>)
                      \o (IF Truthy(config.audience)
                          THEN <<(<<"audience", config.audience>>)>> ELSE <<>>)
                      \o (IF inParams
                          THEN <<(<<"client_id", config.clientId>>),
                                 (<<"client_secret", config.clientSecret>>)>>
                          ELSE <<>>)
         IN  Await(Request("POST", config.tokenUrl,
                           IF inParams THEN Undefined
                           ELSE "Basic " \o btoa(config.clientId \o ":" \o config.clientSecret),
                           "application/x-www-form-urlencoded",
                           JoinParams(pairs)))

\* Mutant: the answer is not checked for an access_token.
TokenFromResponse_Unchecked(r) ==
    IF ~Ok(r.status)
    THEN IF r.isJson
         THEN Throw("OAuth2 token request failed: " \o ToString(r.status) \o " "
                    \o StatusText(r.status) \o " - " \o r.text)
         ELSE Throw("Body is unusable: Body has already been read")
    ELSE Return(Interp(r.access_token))

\* getClientCredentialsToken from the answer of the token endpoint on.  On a non-ok
\* answer whose body is no JSON, response.json() rejects and the response.text() of
\* the catch block finds the body already read, so that a TypeError is thrown.
TokenFromResponse(r) ==
    IF ~Ok(r.status)
    THEN IF r.isJson
         THEN Throw("OAuth2 token request failed: " \o ToString(r.status) \o " "
                    \o StatusText(r.status) \o " - " \o r.text)
         ELSE Throw("Body is unusable: Body has already been read")
    ELSE IF ~Truthy(r.access_token)
         THEN Throw("No access_token in OAuth2 response")
         ELSE Return(r.access_token)

\* token.startsWith('Bearer ') ? token : `Bearer ${token}`
BearerHeader(token) == IF StartsWith(token, "Bearer ") THEN token ELSE "Bearer " \o token

\* Method 1: Simple Bearer Token
BearerMethod(sec) == Return(BearerHeader(sec.BEARER_AUTH_TOKEN))

\* Method 2: Basic Auth (username + password)
BasicMethod(sec) == Return("Basic " \o btoa(sec.BASIC_USERNAME \o ":" \o sec.BASIC_PASSWORD))

\* Method 3: OAuth2 Authorization Code - use pre-existing access token
AuthorizationCodeMethod(sec) ==
    Return(BearerHeader(sec.OAUTH2_AUTHORIZATION_CODE_ACCESS_TOKEN))

\* Method 4: OAuth2 Client Credentials - fetch new token
ClientCredentialsMethod(env, sec) ==
    LET tokenUrl == env.OAUTH2_CLIENT_CREDENTIALS_TOKEN_URL
        clientId == env.OAUTH2_CLIENT_CREDENTIALS_CLIENT_ID
    IN  IF ~Truthy(tokenUrl) \/ ~Truthy(clientId)
        THEN Throw("OAuth2 Client Credentials flow requires TOKEN_URL and CLIENT_ID in env")
        ELSE getClientCredentialsToken(
                 [tokenUrl |-> tokenUrl,
                  clientId |-> clientId,
                  clientSecret |-> sec.OAUTH2_CLIENT_CREDENTIALS_CLIENT_SECRET,
                  scope |-> env.OAUTH2_CLIENT_CREDENTIALS_SCOPE,
                  audience |-> env.OAUTH2_CLIENT_CREDENTIALS_AUDIENCE,
                  authStyle |-> env.OAUTH2_CLIENT_CREDENTIALS_AUTH_STYLE])

NoAuthenticationMessage ==
    "No authentication configured. Provide one of: "
    \o "BEARER_AUTH_TOKEN, BASIC_USERNAME/BASIC_PASSWORD, "
    \o "OAUTH2_AUTHORIZATION_CODE_ACCESS_TOKEN, or OAUTH2_CLIENT_CREDENTIALS_*"

\* Mutant: Basic credentials are looked at before the bearer token.
getAuthorizationHeader_BasicFirst(env, sec) ==
    IF Truthy(sec.BASIC_PASSWORD) /\ Truthy(sec.BASIC_USERNAME)
    THEN BasicMethod(sec)
    ELSE IF Truthy(sec.BEARER_AUTH_TOKEN)
    THEN BearerMethod(sec)
    ELSE IF Truthy(sec.OAUTH2_AUTHORIZATION_CODE_ACCESS_TOKEN)
    THEN AuthorizationCodeMethod(sec)
    ELSE IF Truthy(sec.OAUTH2_CLIENT_CREDENTIALS_CLIENT_SECRET)
    THEN ClientCredentialsMethod(env, sec)
    ELSE Throw(NoAuthenticationMessage)

\* Mutant: the last method is taken without looking at its secret.
getAuthorizationHeader_Unguarded(env, sec) ==
    IF Truthy(sec.BEARER_AUTH_TOKEN)
    THEN BearerMethod(sec)
    ELSE IF Truthy(sec.BASIC_PASSWORD) /\ Truthy(sec.BASIC_USERNAME)
    THEN BasicMethod(sec)
    ELSE IF Truthy(sec.OAUTH2_AUTHORIZATION_CODE_ACCESS_TOKEN)
    THEN AuthorizationCodeMethod(sec)
    ELSE ClientCredentialsMethod(env, sec)

getAuthorizationHeader(env, sec) ==
    IF Truthy(sec.BEARER_AUTH_TOKEN)
    THEN BearerMethod(sec)
    ELSE IF Truthy(sec.BASIC_PASSWORD) /\ Truthy(sec.BASIC_USERNAME)
    THEN BasicMethod(sec)
    ELSE IF Truthy(sec.OAUTH2_AUTHORIZATION_CODE_ACCESS_TOKEN)
    THEN AuthorizationCodeMethod(sec)
    ELSE IF Truthy(sec.OAUTH2_CLIENT_CREDENTIALS_CLIENT_SECRET)
    THEN ClientCredentialsMethod(env, sec)
    ELSE Throw(NoAuthenticationMessage)

(***************************************************************************)
(* src/src/script.mjs                                                      *)
(***************************************************************************)
ApiVersion == "v61.0"

findUserByUsername(username, base, auth) ==
    LET encodedUsername == encodeURIComponent(Interp(username))
        query == "SELECT+Id+FROM+User+WHERE+Username+LIKE+'" \o encodedUsername
                 \o "'+ORDER+BY+Id+ASC"
        url == base \o "/services/data/" \o ApiVersion \o "/query?q=" \o query
    IN  Request("GET", url, auth, Undefined, Undefined)

\* JSON.stringify of an object of string members; undefined members are left out.
RECURSIVE JsonMembers(_)
JsonMembers(pairs) ==
    IF pairs = <<>> THEN ""
    ELSE IF pairs[1][2] = Undefined THEN JsonMembers(Tail(pairs))
    ELSE "\"" \o pairs[1][1] \o "\":\"" \o pairs[1][2] \o "\""
         \o (IF \E i \in 2..Len(pairs) : pairs[i][2] # Undefined THEN "," ELSE "")
         \o JsonMembers(Tail(pairs))

JsonStringify(pairs) == "{" \o JsonMembers(pairs) \o "}"

createPermissionSetAssignment(user, permissionSetId, base, auth) ==
    LET url == base \o "/services/data/" \o ApiVersion \o "/sobjects/PermissionSetAssignment"
    IN  Request("POST", url, auth, "application/json",
                JsonStringify(<< <<"AssigneeId", user>>,
                                 <<"PermissionSetId", permissionSetId>> >>))

\* Mutant: only the error code is looked at.
IsDuplicate_CodeOnly(e) == e.errorCode = "DUPLICATE_VALUE"

\* Mutant: only the message is looked at.
IsDuplicate_MessageOnly(e) == e.message # Undefined /\ Includes(ToLowerCase(e.message), "duplicate")

\* error.errorCode === 'DUPLICATE_VALUE' || error.message?.toLowerCase().includes('duplicate')
IsDuplicate(e) ==
    \/ e.errorCode = "DUPLICATE_VALUE"
    \/ (e.message # Undefined /\ Includes(ToLowerCase(e.message), "duplicate"))

\* IsDuplicate, tabulated over the errors an answer can carry.
DuplicateTable == [e \in ApiErrors |-> IsDuplicate(e)]

\* Mutant: every rejection counts as a duplicate.
isDuplicateError_Always(errorResult) == TRUE

\* Mutant: only the first error of the array is looked at.
isDuplicateError_FirstOnly(errorResult) ==
    Len(errorResult) >= 1 /\ DuplicateTable[errorResult[1]]

\* errorResult.some(...)
isDuplicateError(errorResult) == \E i \in 1..Len(errorResult) : DuplicateTable[errorResult[i]]

\* Mutant: the first message any error of the array has.
FirstMessage_AnyError(errorResult) ==
    IF \A i \in 1..Len(errorResult) : ~Truthy(errorResult[i].message)
    THEN "Unknown error"
    ELSE errorResult[CHOOSE i \in 1..Len(errorResult) :
                        /\ Truthy(errorResult[i].message)
                        /\ \A j \in 1..(i - 1) : ~Truthy(errorResult[j].message)].message

\* errorResult[0]?.message || 'Unknown error'
FirstMessage(errorResult) ==
    IF Len(errorResult) = 0 THEN "Unknown error"
    ELSE OrElse(errorResult[1].message, "Unknown error")

\* Mutant: the status code is left out of the message.
QueryFailedMessage_NoStatus(username, r) ==
    "Failed to query user " \o Interp(username) \o ": " \o StatusText(r.status)

\* The messages of the errors invoke throws.
QueryFailedMessage(username, r) ==
    "Failed to query user " \o Interp(username) \o ": "
    \o ToString(r.status) \o " " \o StatusText(r.status)

\* Mutant: the message carries the URL-encoded username.
UserNotFoundMessage_Encoded(username) ==
    "User not found: " \o encodeURIComponent(Interp(username))

UserNotFoundMessage(username) == "User not found: " \o Interp(username)

AssignmentRejectedMessage(errorResult) ==
    "Failed to create permission set assignment: " \o FirstMessage(errorResult)

AssignmentFailedMessage(r) ==
    "Failed to create permission set assignment: "
    \o ToString(r.status) \o " " \o StatusText(r.status)

\* Mutant: the id of the last record instead of the first.
FirstRecordId_Last(records) == records[Len(records)].Id

\* userResult.records[0].Id
FirstRecordId(records) == records[1].Id

\* Mutant: every 2xx status counts as created.
Created_AnyOk(r) == Ok(r.status)

\* assignmentResponse.status === 201
Created(r) == r.status = 201

Init ==
    /\ params \in [username : UsernameValues,
                   permissionSetId : PermissionSetIdValues,
                   address : ParamAddressValues,
                   apiVersion : {Undefined}]
    /\ secrets \in [BEARER_AUTH_TOKEN : BearerValues,
                    BASIC_USERNAME : {Undefined, "u"},
                    BASIC_PASSWORD : {Undefined, "p"},
                    OAUTH2_AUTHORIZATION_CODE_ACCESS_TOKEN : {Undefined, "act"},
                    OAUTH2_CLIENT_CREDENTIALS_CLIENT_SECRET : {Undefined, "s3"},
                    SALESFORCE_ACCESS_TOKEN : {Undefined}]
    /\ \E a \in EnvAddressValues, o \in OAuthEnvs :
          /\ secrets.OAUTH2_CLIENT_CREDENTIALS_CLIENT_SECRET = Undefined => o = NoOAuthEnv
          /\ environment = o @@ [ADDRESS |-> a, SALESFORCE_INSTANCE_URL |-> Undefined]
    /\ pc = "start"
    /\ baseUrl = Undefined
    /\ authHeader = Undefined
    /\ userId = Undefined
    /\ requests = <<>>
    /\ tokenResponse = NoResponse
    /\ userResponse = NoResponse
    /\ assignmentResponse = NoResponse
    /\ result = NoResult
    /\ error = NoError
    /\ recovery = NoRecovery
    /\ halted = NoResult
    /\ crm = NoCrm
    /\ runs = <<>>

\* invoke throws: the run ends with the error.
Fail(message) ==
    /\ pc' = "thrown"
    /\ error' = message
    /\ result' = result

\* invoke, from its call to its first fetch: the base URL, the Authorization header,
\* then either the token request or the user lookup.
Invoke ==
    /\ pc = "start"
    /\ LET b == getBaseURL(params, environment)
           h == getAuthorizationHeader(environment, secrets)
       IN  IF b.tag = "throw"
           THEN /\ Fail(b.value)
                /\ UNCHANGED <<baseUrl, authHeader, requests>>
           ELSE /\ baseUrl' = b.value
                /\ CASE h.tag = "throw" ->
                          /\ Fail(h.value)
                          /\ UNCHANGED <<authHeader, requests>>
                     [] h.tag = "await" ->
                          /\ pc' = "token"
                          /\ requests' = Append(requests, h.request)
                          /\ UNCHANGED <<authHeader, result, error>>
                     [] h.tag = "return" ->
                          /\ pc' = "lookup"
                          /\ authHeader' = h.value
                          /\ requests' = Append(requests,
                                 findUserByUsername(params.username, b.value, h.value))
                          /\ UNCHANGED <<result, error>>
    /\ UNCHANGED <<params, secrets, environment, recovery, halted, crm, runs, userId,
                   tokenResponse, userResponse, assignmentResponse>>

\* Mutant: a token request that is refused is sent again.
TokenAnswer_Retry ==
    /\ pc = "token"
    /\ \E r \in TokenResponses :
          /\ tokenResponse' = r
          /\ LET t == TokenFromResponse(r)
             IN  IF t.tag = "throw"
                 THEN /\ requests' = Append(requests, requests[Len(requests)])
                      /\ UNCHANGED <<pc, authHeader, result, error>>
                 ELSE /\ pc' = "lookup"
                      /\ authHeader' = "Bearer " \o t.value
                      /\ requests' = Append(requests,
                             findUserByUsername(params.username, baseUrl,
                                                "Bearer " \o t.value))
                      /\ UNCHANGED <<result, error>>
    /\ UNCHANGED <<params, secrets, environment, recovery, halted, crm, runs,
                   baseUrl, userId,
                   userResponse, assignmentResponse>>

\* The token endpoint answers: getClientCredentialsToken and getAuthorizationHeader
\* finish, and invoke goes on to the user lookup.
TokenAnswer ==
    /\ pc = "token"
    /\ \E r \in TokenResponses :
          /\ tokenResponse' = r
          /\ LET t == TokenFromResponse(r)
             IN  IF t.tag = "throw"
                 THEN /\ Fail(t.value)
                      /\ UNCHANGED <<authHeader, requests>>
                 ELSE /\ pc' = "lookup"
                      /\ authHeader' = "Bearer " \o t.value
                      /\ requests' = Append(requests,
                             findUserByUsername(params.username, baseUrl,
                                                "Bearer " \o t.value))
                      /\ UNCHANGED <<result, error>>
    /\ UNCHANGED <<params, secrets, environment, recovery, halted, crm, runs,
                   baseUrl, userId,
                   userResponse, assignmentResponse>>

\* Mutant: a lookup that fails is sent again.
UserAnswer_Retry ==
    /\ pc = "lookup"
    /\ \E r \in LookupResponses :
          /\ userResponse' = r
          /\ IF ~Ok(r.status)
             THEN /\ requests' = Append(requests,
                         findUserByUsername(params.username, baseUrl, authHeader))
                  /\ UNCHANGED <<pc, userId, result, error>>
             ELSE IF ~r.hasRecords \/ Len(r.records) = 0
             THEN /\ Fail(UserNotFoundMessage(params.username))
                  /\ UNCHANGED <<userId, requests>>
             ELSE /\ pc' = "post"
                  /\ userId' = FirstRecordId(r.records)
                  /\ requests' = Append(requests,
                         createPermissionSetAssignment(FirstRecordId(r.records),
                             params.permissionSetId, baseUrl, authHeader))
                  /\ UNCHANGED <<result, error>>
    /\ UNCHANGED <<params, secrets, environment, recovery, halted, crm, runs,
                   baseUrl, authHeader,
                   tokenResponse, assignmentResponse>>

\* The user lookup answers: invoke resolves the user id and issues the POST.
UserAnswer ==
    /\ pc = "lookup"
    /\ \E r \in LookupResponses :
          /\ userResponse' = r
          /\ IF ~Ok(r.status)
             THEN /\ Fail(QueryFailedMessage(params.username, r))
                  /\ UNCHANGED <<userId, requests>>
             ELSE IF ~r.hasRecords \/ Len(r.records) = 0
             THEN /\ Fail(UserNotFoundMessage(params.username))
                  /\ UNCHANGED <<userId, requests>>
             ELSE /\ pc' = "post"
                  /\ userId' = FirstRecordId(r.records)
                  /\ requests' = Append(requests,
                         createPermissionSetAssignment(FirstRecordId(r.records),
                             params.permissionSetId, baseUrl, authHeader))
                  /\ UNCHANGED <<result, error>>
    /\ UNCHANGED <<params, secrets, environment, recovery, halted, crm, runs,
                   baseUrl, authHeader,
                   tokenResponse, assignmentResponse>>

\* The object invoke returns.
SuccessResult(assignmentId) ==
    [status |-> "success",
     username |-> params.username,
     userId |-> userId,
     permissionSetId |-> params.permissionSetId,
     assignmentId |-> assignmentId,
     address |-> baseUrl]

Succeed(assignmentId) ==
    /\ pc' = "returned"
    /\ result' = SuccessResult(assignmentId)
    /\ error' = error

\* The assignment POST answers: invoke returns its result or throws.
AssignmentAnswer ==
    /\ pc = "post"
    /\ \E r \in PostResponses :
          /\ assignmentResponse' = r
          /\ IF Created(r)
             THEN Succeed(r.id)
             ELSE IF r.status = 400
             THEN IF ~r.isArray
                  THEN Fail("errorResult.some is not a function")
                  ELSE IF isDuplicateError(r.errors)
                  THEN Succeed(Null)
                  ELSE Fail(AssignmentRejectedMessage(r.errors))
             ELSE Fail(AssignmentFailedMessage(r))
    /\ UNCHANGED <<params, secrets, environment, recovery, halted, crm, runs,
                   baseUrl, authHeader, userId,
                   requests, tokenResponse, userResponse>>

\* Outcomes of the error handler: it returns { status } or throws an error.
Recover(status) == [tag |-> "return", status |-> status]
Rethrow(e) == [tag |-> "throw", error |-> e]

\* Mutant: the error handler throws a new error that wraps the one it was given.
errorHandler_Wrapped(e) == Rethrow("Error: " \o e)

\* error: const { error } = params; throw error;
errorHandler(e) == Rethrow(e)

\* The host hands the error invoke threw to the error handler (params.error).
Error ==
    /\ pc = "thrown"
    /\ recovery = NoRecovery
    /\ recovery' = errorHandler(error)
    /\ UNCHANGED <<params, secrets, environment, pc, baseUrl, authHeader, userId, requests,
                   tokenResponse, userResponse, assignmentResponse, result, error, halted,
                   crm, runs>>

Next ==
    \/ Invoke
    \/ TokenAnswer
    \/ UserAnswer
    \/ AssignmentAnswer
    \/ Error

Spec == Init /\ [][Next]_vars

\* The runs in which invoke, once called, runs on, and every request that was sent
\* receives a response.
SpecAnswered ==
    /\ Spec
    /\ WF_vars(Invoke)
    /\ WF_vars(TokenAnswer)
    /\ WF_vars(UserAnswer)
    /\ WF_vars(AssignmentAnswer)

(***************************************************************************)
(* invoke run again and again, with the same params, against a CRM that    *)
(* keeps the assignments it has created and refuses to create one twice.   *)
(***************************************************************************)
MaxRuns == 2

\* The users and the permission sets the CRM knows.
CrmUsers == {[Id |-> "005A", Username |-> "a+b@x.io"], [Id |-> "005B", Username |-> "c@x.io"]}
CrmPermissionSets == {"0PS1", "0PS2"}

\* The assignments the CRM may hold before the first run.
CrmAssignmentsBefore ==
    {<<>>, <<[AssigneeId |-> "005B", PermissionSetId |-> "0PS1"]>>}

\* The CRM answers the query of findUserByUsername: the users of that username.
CrmLookupAnswer(request) ==
    LET found == {u \in CrmUsers :
                     findUserByUsername(u.Username, baseUrl, authHeader).url = request.url}
    IN  LookupResponse(200, TRUE,
            IF found = {} THEN <<>> ELSE <<[Id |-> (CHOOSE u \in found : TRUE).Id]>>)

\* The assignment a POST body asks for; none when the body is not that of an
\* assignment of a known user to a known permission set.
CrmRowsOf(request) ==
    {row \in [AssigneeId : {u.Id : u \in CrmUsers}, PermissionSetId : CrmPermissionSets] :
        createPermissionSetAssignment(row.AssigneeId, row.PermissionSetId,
                                      baseUrl, authHeader).body = request.body}

\* The CRM answers the POST: 201 for a new assignment, 400 with DUPLICATE_VALUE for
\* one it holds already, 400 with REQUIRED_FIELD_MISSING for an incomplete body.
CrmPostAnswer(request, assignments) ==
    IF CrmRowsOf(request) = {}
    THEN PostResponse(400, Undefined, TRUE,
             <<[errorCode |-> "REQUIRED_FIELD_MISSING", message |-> "Missing required field"]>>)
    ELSE IF \E i \in 1..Len(assignments) : assignments[i] \in CrmRowsOf(request)
    THEN PostResponse(400, Undefined, TRUE,
             <<[errorCode |-> "DUPLICATE_VALUE", message |-> "Already assigned"]>>)
    ELSE PostResponse(201, CHOOSE id \in AssignmentIdValues : TRUE, FALSE, <<>>)

InitStore ==
    /\ params \in [username : UsernameValues,
                   permissionSetId : PermissionSetIdValues,
                   address : ParamAddressValues,
                   apiVersion : {Undefined}]
    /\ secrets \in [BEARER_AUTH_TOKEN : BearerValues,
                    BASIC_USERNAME : {Undefined, "u"},
                    BASIC_PASSWORD : {Undefined, "p"},
                    OAUTH2_AUTHORIZATION_CODE_ACCESS_TOKEN : {Undefined},
                    OAUTH2_CLIENT_CREDENTIALS_CLIENT_SECRET : {Undefined, "s3"},
                    SALESFORCE_ACCESS_TOKEN : {Undefined}]
    /\ \E a \in EnvAddressValues, o \in OAuthEnvs :
          /\ secrets.OAUTH2_CLIENT_CREDENTIALS_CLIENT_SECRET = Undefined => o = NoOAuthEnv
          /\ environment = o @@ [ADDRESS |-> a, SALESFORCE_INSTANCE_URL |-> Undefined]
    /\ pc = "start"
    /\ baseUrl = Undefined
    /\ authHeader = Undefined
    /\ userId = Undefined
    /\ requests = <<>>
    /\ tokenResponse = NoResponse
    /\ userResponse = NoResponse
    /\ assignmentResponse = NoResponse
    /\ result = NoResult
    /\ error = NoError
    /\ recovery = NoRecovery
    /\ halted = NoResult
    /\ \E before \in CrmAssignmentsBefore :
          crm = [assignments |-> before, processed |-> 0, answer |-> NoResponse]
    /\ runs = <<>>

\* The host calls invoke, as long as runs are left.
StoreInvoke == Len(runs) < MaxRuns /\ Invoke

\* The token endpoint grants a token.
StoreTokenAnswer ==
    /\ TokenAnswer
    /\ Ok(tokenResponse'.status)
    /\ Truthy(tokenResponse'.access_token)

\* The CRM receives the request invoke is waiting on: it works out its answer and,
\* for a new assignment, stores it.
CrmProcess ==
    /\ pc \in {"lookup", "post"}
    /\ crm.processed < Len(requests)
    /\ LET request == requests[Len(requests)]
           answer == IF pc = "lookup" THEN CrmLookupAnswer(request)
                     ELSE CrmPostAnswer(request, crm.assignments)
       IN  crm' = [assignments |->
                      IF pc = "post" /\ answer.status = 201
                      THEN Append(crm.assignments, CHOOSE row \in CrmRowsOf(request) : TRUE)
                      ELSE crm.assignments,
                  processed |-> Len(requests),
                  answer |-> answer]
    /\ UNCHANGED <<params, secrets, environment, pc, baseUrl, authHeader, userId, requests,
                   tokenResponse, userResponse, assignmentResponse, result, error,
                   recovery, halted, runs>>

\* The answer of the CRM reaches invoke.
StoreUserAnswer ==
    /\ crm.processed = Len(requests)
    /\ UserAnswer
    /\ userResponse' = crm.answer

StoreAssignmentAnswer ==
    /\ crm.processed = Len(requests)
    /\ AssignmentAnswer
    /\ assignmentResponse' = crm.answer

\* What a finished run of invoke leaves: its result, or its error.
RunOutcome == IF pc = "returned" THEN result ELSE [status |-> "error", message |-> error]

\* The run is over; the host notes its outcome and is free to call invoke again.
Again ==
    /\ pc \in {"returned", "thrown"}
    /\ runs' = Append(runs, RunOutcome)
    /\ pc' = "start"
    /\ baseUrl' = Undefined
    /\ authHeader' = Undefined
    /\ userId' = Undefined
    /\ tokenResponse' = NoResponse
    /\ userResponse' = NoResponse
    /\ assignmentResponse' = NoResponse
    /\ result' = NoResult
    /\ error' = NoError
    /\ UNCHANGED <<params, secrets, environment, requests, recovery, halted, crm>>

NextStore ==
    \/ StoreInvoke
    \/ StoreTokenAnswer
    \/ CrmProcess
    \/ StoreUserAnswer
    \/ StoreAssignmentAnswer
    \/ Again

SpecStore == InitStore /\ [][NextStore]_vars

(***************************************************************************)
(* The halt handler, called by the host on its own, with params.reason.    *)
(***************************************************************************)
HaltUsernameValues == {Undefined, Null, "", "a+b@x.io"}
ReasonValues == {Undefined, "timeout", "system_shutdown"}
NowValues == {"2024-01-01T00:00:00.000Z", "2024-06-30T23:59:59.999Z"}

\* Mutant: the username is reported as given, without the default.
haltHandler_NoDefault(p, now) ==
    [status |-> "halted", username |-> p.username, reason |-> p.reason, halted_at |-> now]

\* halt: the object it returns; now is new Date().toISOString().
haltHandler(p, now) ==
    [status |-> "halted",
     username |-> OrElse(p.username, "unknown"),
     reason |-> p.reason,
     halted_at |-> now]

InitHalt ==
    /\ params \in [username : HaltUsernameValues,
                   permissionSetId : PermissionSetIdValues,
                   address : ParamAddressValues,
                   apiVersion : {Undefined},
                   reason : ReasonValues]
    /\ secrets = [BEARER_AUTH_TOKEN |-> "tok",
                  BASIC_USERNAME |-> Undefined,
                  BASIC_PASSWORD |-> Undefined,
                  OAUTH2_AUTHORIZATION_CODE_ACCESS_TOKEN |-> Undefined,
                  OAUTH2_CLIENT_CREDENTIALS_CLIENT_SECRET |-> Undefined,
                  SALESFORCE_ACCESS_TOKEN |-> Undefined]
    /\ environment = NoOAuthEnv @@ [ADDRESS |-> "https://e.sf.test",
                                     SALESFORCE_INSTANCE_URL |-> Undefined]
    /\ pc = "start"
    /\ baseUrl = Undefined
    /\ authHeader = Undefined
    /\ userId = Undefined
    /\ requests = <<>>
    /\ tokenResponse = NoResponse
    /\ userResponse = NoResponse
    /\ assignmentResponse = NoResponse
    /\ result = NoResult
    /\ error = NoError
    /\ recovery = NoRecovery
    /\ halted = NoResult
    /\ crm = NoCrm
    /\ runs = <<>>

\* The host calls halt: it builds its result and returns, without a fetch.
Halt ==
    /\ halted = NoResult
    /\ \E now \in NowValues : halted' = haltHandler(params, now)
    /\ UNCHANGED <<params, secrets, environment, pc, baseUrl, authHeader, userId, requests,
                   tokenResponse, userResponse, assignmentResponse, result, error, recovery,
                   crm, runs>>

NextHalt == Halt

SpecHalt == InitHalt /\ [][NextHalt]_vars
(***************************************************************************)
(* src/unnamed/part_001: the variant that validates its own parameters and *)
(* authenticates with SALESFORCE_ACCESS_TOKEN.                             *)
(***************************************************************************)
ApiVersionValues == {Undefined, "v60.0"}
LegacyUsernameValues == UsernameValues \cup {"u429@x.io"}
InstanceUrlValues == {Undefined, "https://i.sf.test", "https://i.sf.test/base/"}

\* The scheme of the URLs of the model.
Scheme == "https://"

\* scheme://host of an https URL.
Origin(u) ==
    IF \E i \in (Len(Scheme) + 1)..Len(u) : CharAt(u, i) = "/"
    THEN SubSeq(u, 1, (CHOOSE i \in (Len(Scheme) + 1)..Len(u) :
                          /\ CharAt(u, i) = "/"
                          /\ \A j \in (Len(Scheme) + 1)..(i - 1) : CharAt(u, j) # "/") - 1)
    ELSE u

\* The URL parser's encoding of a query of an http(s) URL, for the characters a
\* query of this program can hold: ' becomes %27.
RECURSIVE QueryEncode(_)
QueryEncode(s) ==
    IF s = "" THEN ""
    ELSE (IF CharAt(s, 1) = "'" THEN "%27" ELSE CharAt(s, 1))
         \o QueryEncode(Tail(s))

\* new URL(path + "?" + query, base).toString() for an absolute path.
ResolveUrl(path, query, base) ==
    Origin(base) \o path \o (IF query = "" THEN "" ELSE "?" \o QueryEncode(query))

LegacyFindUserByUsername(username, instanceUrl, accessToken, apiVersion) ==
    LET encodedUsername == encodeURIComponent(Interp(username))
        query == "SELECT+Id+FROM+User+WHERE+Username+LIKE+'" \o encodedUsername
                 \o "'+ORDER+BY+Id+ASC"
    IN  Request("GET",
                ResolveUrl("/services/data/" \o apiVersion \o "/query", "q=" \o query,
                           instanceUrl),
                "Bearer " \o accessToken, Undefined, Undefined)

LegacyCreatePermissionSetAssignment(user, psId, instanceUrl, accessToken, apiVersion) ==
    Request("POST",
            ResolveUrl("/services/data/" \o apiVersion \o "/sobjects/PermissionSetAssignment",
                       "", instanceUrl),
            "Bearer " \o accessToken, "application/json",
            JsonStringify(<< <<"AssigneeId", user>>,
                             <<"PermissionSetId", psId>> >>))

\* Mutant: the version of the URLs is fixed.
LegacyApiVersion_Fixed == "v61.0"

\* const { apiVersion = 'v61.0' } = params
LegacyApiVersion == IF params.apiVersion = Undefined THEN "v61.0" ELSE params.apiVersion

InitLegacy ==
    /\ params \in [username : LegacyUsernameValues,
                   permissionSetId : PermissionSetIdValues,
                   address : {Undefined},
                   apiVersion : ApiVersionValues]
    /\ secrets \in [BEARER_AUTH_TOKEN : {Undefined, "tok"},
                    BASIC_USERNAME : {Undefined},
                    BASIC_PASSWORD : {Undefined},
                    OAUTH2_AUTHORIZATION_CODE_ACCESS_TOKEN : {Undefined},
                    OAUTH2_CLIENT_CREDENTIALS_CLIENT_SECRET : {Undefined},
                    SALESFORCE_ACCESS_TOKEN : {Undefined, "sfat"}]
    /\ \E a \in EnvAddressValues, i \in InstanceUrlValues :
          environment = NoOAuthEnv @@ [ADDRESS |-> a, SALESFORCE_INSTANCE_URL |-> i]
    /\ pc = "start"
    /\ baseUrl = Undefined
    /\ authHeader = Undefined
    /\ userId = Undefined
    /\ requests = <<>>
    /\ tokenResponse = NoResponse
    /\ userResponse = NoResponse
    /\ assignmentResponse = NoResponse
    /\ result = NoResult
    /\ error = NoError
    /\ recovery = NoRecovery
    /\ halted = NoResult
    /\ crm = NoCrm
    /\ runs = <<>>

\* Mutant: permissionSetId is not checked.
LegacyValidate_NoPermissionSetId(p, sec, env) ==
    IF ~Truthy(p.username)
    THEN Throw("username is required")
    ELSE IF ~Truthy(sec.SALESFORCE_ACCESS_TOKEN)
    THEN Throw("SALESFORCE_ACCESS_TOKEN secret is required")
    ELSE IF ~Truthy(env.SALESFORCE_INSTANCE_URL)
    THEN Throw("SALESFORCE_INSTANCE_URL environment variable is required")
    ELSE Return("")

\* The checks invoke makes before its first request.
LegacyValidate(p, sec, env) ==
    IF ~Truthy(p.username)
    THEN Throw("username is required")
    ELSE IF ~Truthy(p.permissionSetId)
    THEN Throw("permissionSetId is required")
    ELSE IF ~Truthy(sec.SALESFORCE_ACCESS_TOKEN)
    THEN Throw("SALESFORCE_ACCESS_TOKEN secret is required")
    ELSE IF ~Truthy(env.SALESFORCE_INSTANCE_URL)
    THEN Throw("SALESFORCE_INSTANCE_URL environment variable is required")
    ELSE Return("")

\* invoke, from its call to the fetch of the user lookup.
LegacyInvoke ==
    /\ pc = "start"
    /\ IF LegacyValidate(params, secrets, environment).tag = "throw"
       THEN /\ Fail(LegacyValidate(params, secrets, environment).value)
            /\ UNCHANGED requests
       ELSE /\ pc' = "lookup"
            /\ requests' = Append(requests,
                   LegacyFindUserByUsername(params.username,
                       environment.SALESFORCE_INSTANCE_URL,
                       secrets.SALESFORCE_ACCESS_TOKEN, LegacyApiVersion))
            /\ UNCHANGED <<result, error>>
    /\ UNCHANGED <<params, secrets, environment, recovery, halted, crm, runs,
                   baseUrl, authHeader, userId,
                   tokenResponse, userResponse, assignmentResponse>>

LegacyUserAnswer ==
    /\ pc = "lookup"
    /\ \E r \in LookupResponses :
          /\ userResponse' = r
          /\ IF ~Ok(r.status)
             THEN /\ Fail(QueryFailedMessage(params.username, r))
                  /\ UNCHANGED <<userId, requests>>
             ELSE IF ~r.hasRecords \/ Len(r.records) = 0
             THEN /\ Fail(UserNotFoundMessage(params.username))
                  /\ UNCHANGED <<userId, requests>>
             ELSE /\ pc' = "post"
                  /\ userId' = FirstRecordId(r.records)
                  /\ requests' = Append(requests,
                         LegacyCreatePermissionSetAssignment(FirstRecordId(r.records),
                             params.permissionSetId, environment.SALESFORCE_INSTANCE_URL,
                             secrets.SALESFORCE_ACCESS_TOKEN, LegacyApiVersion))
                  /\ UNCHANGED <<result, error>>
    /\ UNCHANGED <<params, secrets, environment, recovery, halted, crm, runs,
                   baseUrl, authHeader,
                   tokenResponse, assignmentResponse>>

\* The object this variant's invoke returns (it has no address member).
LegacySuccessResult(assignmentId) ==
    [status |-> "success",
     username |-> params.username,
     userId |-> userId,
     permissionSetId |-> params.permissionSetId,
     assignmentId |-> assignmentId]

LegacySucceed(assignmentId) ==
    /\ pc' = "returned"
    /\ result' = LegacySuccessResult(assignmentId)
    /\ error' = error

LegacyAssignmentAnswer ==
    /\ pc = "post"
    /\ \E r \in PostResponses :
          /\ assignmentResponse' = r
          /\ IF Created(r)
             THEN LegacySucceed(r.id)
             ELSE IF r.status = 400
             THEN IF ~r.isArray
                  THEN Fail("errorResult.some is not a function")
                  ELSE IF isDuplicateError(r.errors)
                  THEN LegacySucceed(Null)
                  ELSE Fail(AssignmentRejectedMessage(r.errors))
             ELSE Fail(AssignmentFailedMessage(r))
    /\ UNCHANGED <<params, secrets, environment, recovery, halted, crm, runs,
                   baseUrl, authHeader, userId,
                   requests, tokenResponse, userResponse>>

\* Mutant: the fatal markers are looked for before the retryable ones.
LegacyErrorHandler_FatalFirst(message) ==
    IF \/ Includes(message, "401")
       \/ Includes(message, "403")
       \/ Includes(message, "is required")
       \/ Includes(message, "not found")
    THEN Rethrow(message)
    ELSE Recover("retry_requested")

\* Mutant: an error that is neither retryable nor fatal is rethrown.
LegacyErrorHandler_DefaultFatal(message) ==
    IF \/ Includes(message, "429")
       \/ Includes(message, "502")
       \/ Includes(message, "503")
       \/ Includes(message, "504")
    THEN Recover("retry_requested")
    ELSE Rethrow(message)

\* error: the retryable markers are looked for first, then the fatal ones, in
\* error.message; anything else is retried.
LegacyErrorHandler(message) ==
    IF \/ Includes(message, "429")
       \/ Includes(message, "502")
       \/ Includes(message, "503")
       \/ Includes(message, "504")
    THEN Recover("retry_requested")
    ELSE IF \/ Includes(message, "401")
            \/ Includes(message, "403")
            \/ Includes(message, "is required")
            \/ Includes(message, "not found")
    THEN Rethrow(message)
    ELSE Recover("retry_requested")

\* The host hands the error invoke threw to the error handler (params.error).
LegacyError ==
    /\ pc = "thrown"
    /\ recovery = NoRecovery
    /\ recovery' = LegacyErrorHandler(error)
    /\ UNCHANGED <<params, secrets, environment, pc, baseUrl, authHeader, userId, requests,
                   tokenResponse, userResponse, assignmentResponse, result, error, halted,
                   crm, runs>>

NextLegacy ==
    \/ LegacyInvoke
    \/ LegacyUserAnswer
    \/ LegacyAssignmentAnswer
    \/ LegacyError

SpecLegacy == InitLegacy /\ [][NextLegacy]_vars
(***************************************************************************)
(* Properties.                                                             *)
(***************************************************************************)
\* The user lookup has answered ok with at least one record.
LookupFound ==
    /\ userResponse.status # 0
    /\ Ok(userResponse.status)
    /\ userResponse.hasRecords
    /\ Len(userResponse.records) >= 1

\* The user lookup has answered ok without a records field or with an empty list.
LookupEmpty ==
    /\ userResponse.status # 0
    /\ Ok(userResponse.status)
    /\ (~userResponse.hasRecords \/ Len(userResponse.records) = 0)

\* The user lookup has answered with a non-ok response.
LookupFailed == userResponse.status # 0 /\ ~Ok(userResponse.status)

\* The PermissionSetAssignment POST has been issued.
PostIssued ==
    \E i \in 1..Len(requests) :
        /\ requests[i].method = "POST"
        /\ EndsWith(requests[i].url, "/sobjects/PermissionSetAssignment")

\* A duplicate error: the code DUPLICATE_VALUE, or a message that mentions "duplicate".
DuplicateAssignmentErrors ==
    {e \in ApiErrors :
        \/ e.errorCode = "DUPLICATE_VALUE"
        \/ (e.message # Undefined /\ Includes(ToLowerCase(e.message), "duplicate"))}

\* The POST has answered 400 with an error array.
PostRejected == assignmentResponse.status = 400 /\ assignmentResponse.isArray

RejectedAsDuplicate ==
    /\ PostRejected
    /\ \E i \in 1..Len(assignmentResponse.errors) :
          assignmentResponse.errors[i] \in DuplicateAssignmentErrors

RejectedNotDuplicate ==
    /\ PostRejected
    /\ \A i \in 1..Len(assignmentResponse.errors) :
          assignmentResponse.errors[i] \notin DuplicateAssignmentErrors

\* C1: when the lookup answers ok with at least one record and the POST answers 201,
\* invoke returns status 'success' with the input username and permissionSetId, the
\* Id of the first record as userId and the id of the POST answer as assignmentId.
C1_CreatedResult ==
    (LookupFound /\ assignmentResponse.status = 201) =>
        /\ pc = "returned"
        /\ error = NoError
        /\ result.status = "success"
        /\ result.username = params.username
        /\ result.permissionSetId = params.permissionSetId
        /\ result.userId = userResponse.records[1].Id
        /\ result.assignmentId = assignmentResponse.id

C1_Witness ==
    /\ pc = "returned"
    /\ assignmentResponse.status = 201
    /\ Len(userResponse.records) = 2
    /\ result.userId = "005A"
    /\ result.assignmentId = "0PaX"

\* C2: when the lookup succeeds and the POST answers 400 with a duplicate error,
\* invoke does not fail: it returns status 'success' with the resolved userId, the
\* input username and permissionSetId, and assignmentId null.
C2_DuplicateIsSuccess ==
    (LookupFound /\ RejectedAsDuplicate) =>
        /\ pc = "returned"
        /\ error = NoError
        /\ result.status = "success"
        /\ result.userId = userResponse.records[1].Id
        /\ result.username = params.username
        /\ result.permissionSetId = params.permissionSetId
        /\ result.assignmentId = Null

C2_Witness ==
    /\ pc = "returned"
    /\ assignmentResponse.status = 400
    /\ Len(assignmentResponse.errors) = 1
    /\ assignmentResponse.errors[1].errorCode # "DUPLICATE_VALUE"
    /\ result.assignmentId = Null

\* C3: when the lookup answers ok without a records field or with an empty records
\* list, invoke fails with 'User not found: <username>' and the POST is never issued.
C3_UserNotFound ==
    LookupEmpty =>
        /\ pc = "thrown"
        /\ error = "User not found: " \o Interp(params.username)
        /\ result = NoResult
        /\ ~PostIssued
        /\ assignmentResponse = NoResponse

C3_Witness ==
    /\ pc = "thrown"
    /\ userResponse.status = 200
    /\ userResponse.hasRecords
    /\ userResponse.records = <<>>
    /\ error = "User not found: a+b@x.io"

\* C4: when the lookup answers with a non-ok response, invoke fails with
\* 'Failed to query user <username>: <status> <statusText>' of that response and the
\* POST is never issued.
C4_QueryFailed ==
    LookupFailed =>
        /\ pc = "thrown"
        /\ error = "Failed to query user " \o Interp(params.username) \o ": "
                   \o ToString(userResponse.status) \o " " \o StatusText(userResponse.status)
        /\ result = NoResult
        /\ ~PostIssued
        /\ assignmentResponse = NoResponse

C4_Witness ==
    /\ pc = "thrown"
    /\ userResponse.status = 401
    /\ error = "Failed to query user a+b@x.io: 401 Unauthorized"

\* C5: when the POST answers 400 and no error of the array is a duplicate error,
\* invoke fails with 'Failed to create permission set assignment: ' followed by the
\* message of the first error, or by 'Unknown error' when there is no such message,
\* and returns no result.
C5_RejectedNotDuplicate ==
    RejectedNotDuplicate =>
        /\ pc = "thrown"
        /\ result = NoResult
        /\ error = "Failed to create permission set assignment: "
                   \o (IF Len(assignmentResponse.errors) = 0
                       THEN "Unknown error"
                       ELSE IF assignmentResponse.errors[1].message = Undefined
                       THEN "Unknown error"
                       ELSE assignmentResponse.errors[1].message)

C5_Witness ==
    /\ pc = "thrown"
    /\ assignmentResponse.status = 400
    /\ Len(assignmentResponse.errors) = 2
    /\ assignmentResponse.errors[1].message = Undefined
    /\ assignmentResponse.errors[2].message = "Missing required field"
    /\ error = "Failed to create permission set assignment: Unknown error"

\* C6: when the POST answers with a status other than 201 and 400, invoke fails with
\* 'Failed to create permission set assignment: <status> <statusText>' and returns no
\* result.
C6_OtherStatusFails ==
    (assignmentResponse.status \notin {0, 201, 400}) =>
        /\ pc = "thrown"
        /\ result = NoResult
        /\ error = "Failed to create permission set assignment: "
                   \o ToString(assignmentResponse.status) \o " "
                   \o StatusText(assignmentResponse.status)

C6_Witness ==
    /\ pc = "thrown"
    /\ assignmentResponse.status = 200
    /\ error = "Failed to create permission set assignment: 200 OK"

\* The scheme the ladder selects: the first whose secrets are present.
HasBearer == secrets.BEARER_AUTH_TOKEN # Undefined
HasBasic == secrets.BASIC_USERNAME # Undefined /\ secrets.BASIC_PASSWORD # Undefined
HasAuthorizationCode == secrets.OAUTH2_AUTHORIZATION_CODE_ACCESS_TOKEN # Undefined
HasClientSecret == secrets.OAUTH2_CLIENT_CREDENTIALS_CLIENT_SECRET # Undefined

FirstMatchingScheme ==
    IF HasBearer THEN "bearer"
    ELSE IF HasBasic THEN "basic"
    ELSE IF HasAuthorizationCode THEN "authorization_code"
    ELSE IF HasClientSecret THEN "client_credentials"
    ELSE "none"

\* A request to the OAuth2 token endpoint has been issued.
TokenRequested ==
    \E i \in 1..Len(requests) :
        requests[i].url = environment.OAUTH2_CLIENT_CREDENTIALS_TOKEN_URL

\* The requests sent to the CRM, as positions in requests.
CrmRequests ==
    {i \in 1..Len(requests) :
        requests[i].url # environment.OAUTH2_CLIENT_CREDENTIALS_TOKEN_URL}

\* Every request sent to the CRM carries the Authorization header h.
CrmAuthorization(h) == \A i \in CrmRequests : requests[i].authorization = h

\* invoke has got past getBaseURL.
BaseUrlResolved == pc # "start" /\ baseUrl # Undefined

\* C7: the Authorization header comes from the first scheme of the ladder bearer,
\* basic, authorization code, client credentials whose secrets are present; no
\* lower scheme is consulted, and the token endpoint is called only when none of the
\* first three schemes matches.
C7_AuthLadder ==
    BaseUrlResolved =>
        /\ FirstMatchingScheme = "bearer" =>
              /\ CrmRequests # {}
              /\ CrmAuthorization(IF StartsWith(secrets.BEARER_AUTH_TOKEN, "Bearer ")
                                  THEN secrets.BEARER_AUTH_TOKEN
                                  ELSE "Bearer " \o secrets.BEARER_AUTH_TOKEN)
        /\ FirstMatchingScheme = "basic" =>
              /\ CrmRequests # {}
              /\ CrmAuthorization("Basic " \o btoa(secrets.BASIC_USERNAME \o ":"
                                                   \o secrets.BASIC_PASSWORD))
        /\ FirstMatchingScheme = "authorization_code" =>
              /\ CrmRequests # {}
              /\ CrmAuthorization("Bearer " \o secrets.OAUTH2_AUTHORIZATION_CODE_ACCESS_TOKEN)
        /\ FirstMatchingScheme = "client_credentials" =>
              /\ CrmRequests # {} => tokenResponse.status # 0
              /\ tokenResponse.status # 0 =>
                    CrmAuthorization("Bearer " \o tokenResponse.access_token)
              /\ pc = "thrown" \/ TokenRequested
        /\ FirstMatchingScheme = "none" => pc = "thrown" /\ requests = <<>>
        /\ TokenRequested => FirstMatchingScheme = "client_credentials"

C7_Witness ==
    /\ pc = "lookup"
    /\ ~HasBearer
    /\ HasBasic
    /\ HasAuthorizationCode
    /\ HasClientSecret
    /\ environment.OAUTH2_CLIENT_CREDENTIALS_TOKEN_URL # Undefined
    /\ environment.OAUTH2_CLIENT_CREDENTIALS_CLIENT_ID # Undefined
    /\ Len(requests) = 1
    /\ requests[1].authorization = "Basic dTpw"

\* No authentication secret is configured.
NoSecrets ==
    /\ ~HasBearer
    /\ secrets.BASIC_USERNAME = Undefined
    /\ secrets.BASIC_PASSWORD = Undefined
    /\ ~HasAuthorizationCode
    /\ ~HasClientSecret

\* A base URL is specified, by params.address or by the ADDRESS environment value.
AddressGiven == params.address # Undefined \/ environment.ADDRESS # Undefined

RejectedWith(message) == pc = "thrown" /\ error = message /\ requests = <<>>

ErrorHandled == recovery # NoRecovery

RetryableMarkers == {"429", "502", "503", "504"}
FatalMarkers == {"401", "403", "is required", "not found"}

\* The message of the error contains one of the markers.
Mentions(message, markers) == \E m \in markers : Includes(message, m)

C12_FatalRethrown ==
    (ErrorHandled /\ Mentions(error, FatalMarkers)) => recovery = Rethrow(error)

UsernameGiven == params.username \notin {Undefined, Null, ""}

\* C15: the halt handler returns, without throwing and without an HTTP request, a
\* result with status 'halted', the reason of params.reason, and as username
\* params.username when it is given and 'unknown' when it is absent.
C15_Halted ==
    halted # NoResult =>
        /\ halted.status = "halted"
        /\ halted.reason = params.reason
        /\ halted.username = (IF UsernameGiven THEN params.username ELSE "unknown")
        /\ requests = <<>>
        /\ pc # "thrown"

C15_Witness ==
    /\ halted # NoResult
    /\ params.username = Undefined
    /\ params.reason = "timeout"
    /\ halted.username = "unknown"

\* The API version the caller asks for, v61.0 when params.apiVersion is absent.
RequestedVersion == IF params.apiVersion = Undefined THEN "v61.0" ELSE params.apiVersion

LookupRequests == {i \in 1..Len(requests) : requests[i].method = "GET"}

AssignmentRequests ==
    {i \in 1..Len(requests) :
        /\ requests[i].method = "POST"
        /\ EndsWith(requests[i].url, "/sobjects/PermissionSetAssignment")}

\* C17: a run of invoke is a linear two-step sequence: the lookup GET is sent at most
\* once, the assignment POST at most once and only after the lookup has answered ok
\* with at least one record, and no request is sent again or withdrawn.
C17_LinearSequence ==
    /\ [](/\ Cardinality(LookupRequests) <= 1
          /\ Cardinality(AssignmentRequests) <= 1
          /\ \A j \in AssignmentRequests :
                /\ LookupFound
                /\ \E i \in LookupRequests : i < j)
    /\ [][/\ Len(requests') \in {Len(requests), Len(requests) + 1}
          /\ SubSeq(requests', 1, Len(requests)) = requests
          /\ AssignmentRequests' # AssignmentRequests =>
                (pc = "lookup" /\ userResponse = NoResponse /\ LookupFound')]_vars

C17_Witness ==
    /\ pc = "returned"
    /\ Cardinality(LookupRequests) = 1
    /\ Cardinality(AssignmentRequests) = 1
    /\ \A i \in LookupRequests : \A j \in AssignmentRequests : i < j

\* The base URL the caller asks for: params.address, else ADDRESS, less one trailing slash.
ExpectedBaseUrl ==
    LET a == IF params.address # Undefined THEN params.address ELSE environment.ADDRESS
    IN  IF EndsWith(a, "/") THEN SubSeq(a, 1, Len(a) - 1) ELSE a

\* C18: the lookup and the POST are sent to the base URL, which is params.address
\* when present and ADDRESS otherwise, with one trailing slash removed, and a
\* successful result reports that base URL as address.
C18_BaseUrl ==
    /\ \A i \in CrmRequests :
          StartsWith(requests[i].url, ExpectedBaseUrl \o "/services/data/")
    /\ pc = "returned" => result.address = ExpectedBaseUrl

C18_Witness ==
    /\ pc = "returned"
    /\ params.address = "https://p.sf.test/"
    /\ environment.ADDRESS = "https://e.sf.test"
    /\ result.address = "https://p.sf.test"
    /\ Cardinality(CrmRequests) = 2

\* The requests sent to the OAuth2 token endpoint, as positions in requests.
TokenRequests ==
    {i \in 1..Len(requests) :
        requests[i].url = environment.OAUTH2_CLIENT_CREDENTIALS_TOKEN_URL}

\* TOKEN_URL or CLIENT_ID is missing from the environment.
TokenEnvMissing ==
    \/ environment.OAUTH2_CLIENT_CREDENTIALS_TOKEN_URL = Undefined
    \/ environment.OAUTH2_CLIENT_CREDENTIALS_CLIENT_ID = Undefined

\* The token endpoint has answered with a non-ok response or without access_token.
TokenRefused ==
    /\ tokenResponse.status # 0
    /\ (~Ok(tokenResponse.status) \/ tokenResponse.access_token = Undefined)

\* C19: under OAuth2 client credentials invoke sends nothing to the CRM when no token
\* can be obtained: with TOKEN_URL or CLIENT_ID missing it fails before any request,
\* with a token answer that is non-ok or lacks access_token it fails after that one
\* token request, and otherwise the token request comes before the user lookup.
C19_TokenFirst ==
    (pc # "start" /\ FirstMatchingScheme = "client_credentials") =>
        /\ TokenEnvMissing => (pc = "thrown" /\ requests = <<>>)
        /\ TokenRefused =>
              /\ pc = "thrown"
              /\ TokenRequests = {1}
              /\ CrmRequests = {}
        /\ CrmRequests # {} =>
              /\ TokenRequests = {1}
              /\ tokenResponse.status # 0
              /\ ~TokenRefused

C19_Witness ==
    /\ FirstMatchingScheme = "client_credentials"
    /\ TokenRefused
    /\ tokenResponse.status = 200
    /\ pc = "thrown"
    /\ Len(requests) = 1

\* The POST has answered 201, or 400 with a duplicate error.
AssignedOrDuplicate == assignmentResponse.status = 201 \/ RejectedAsDuplicate

\* C20: invoke returns, with status 'success', only if the POST has answered 201 or
\* 400 with a duplicate error; every other finished run ends with an error and no
\* result; assignmentId is non-null only after a 201.
C20_SuccessOnlyAfterPost ==
    /\ pc = "returned" =>
          /\ result # NoResult
          /\ result.status = "success"
          /\ AssignedOrDuplicate
          /\ result.assignmentId # Null => assignmentResponse.status = 201
    /\ (pc \in {"returned", "thrown"} /\ ~AssignedOrDuplicate) =>
          /\ pc = "thrown"
          /\ error # NoError
    /\ pc # "returned" => result = NoResult

C20_Witness ==
    /\ pc = "thrown"
    /\ assignmentResponse.status = 200
    /\ result = NoResult

(***************************************************************************)
(* Duplicate detection over the whole error array.                         *)
(***************************************************************************)

\* The characters c and d are the same letter, whatever their case.
SameLetter(c, d) ==
    \/ c = d
    \/ (IndexIn(UpperChars, c) # 0 /\ IndexIn(UpperChars, c) = IndexIn(LowerChars, d))
    \/ (IndexIn(LowerChars, c) # 0 /\ IndexIn(LowerChars, c) = IndexIn(UpperChars, d))

\* The message contains the word, in any letter case.
MentionsInAnyCase(message, word) ==
    \E k \in 1..(Len(message) - Len(word) + 1) :
        \A j \in 1..Len(word) : SameLetter(CharAt(message, k + j - 1), CharAt(word, j))

\* The errors with the code DUPLICATE_VALUE or a message that mentions 'duplicate'.
DuplicateInAnyCase ==
    {e \in ApiErrors :
        \/ e.errorCode = "DUPLICATE_VALUE"
        \/ (e.message # Undefined /\ MentionsInAnyCase(e.message, "duplicate"))}

\* C22: on a 400 answer every error of the array counts: when any element, the
\* first or a later one, has the code DUPLICATE_VALUE or a message containing
\* 'duplicate' in any letter case, invoke succeeds.
C22_AnyElementAnyCase ==
    PostRejected =>
        \A i \in 1..Len(assignmentResponse.errors) :
            assignmentResponse.errors[i] \in DuplicateInAnyCase =>
                /\ pc = "returned"
                /\ result.status = "success"
                /\ error = NoError

C22_Witness ==
    /\ PostRejected
    /\ Len(assignmentResponse.errors) = 2
    /\ assignmentResponse.errors[1] \notin DuplicateInAnyCase
    /\ assignmentResponse.errors[2].errorCode # "DUPLICATE_VALUE"
    /\ assignmentResponse.errors[2].message = "DUPLICATE entry"
    /\ pc = "returned"
    /\ result.status = "success"

(***************************************************************************)
(* Termination of invoke.                                                  *)
(***************************************************************************)

\* invoke has returned or thrown.
Finished == pc \in {"returned", "thrown"}

\* The run has exactly one outcome: a success result, or an error.
OneOutcome ==
    \/ (pc = "returned" /\ result # NoResult /\ result.status = "success" /\ error = NoError)
    \/ (pc = "thrown" /\ result = NoResult /\ error # NoError)

\* C23: when every request that is sent receives a response, every run of invoke
\* ends, with exactly one outcome (a success result or a thrown error) that no
\* later step changes, and after at most three HTTP requests.
C23_Terminates ==
    /\ <>Finished
    /\ [](Len(requests) <= 3)
    /\ [](Finished => OneOutcome)
    /\ [][Finished => (/\ pc' = pc
                       /\ result' = result
                       /\ error' = error
                       /\ requests' = requests)]_vars

C23_Witness ==
    /\ pc = "returned"
    /\ Len(requests) = 3
    /\ requests[1].url = environment.OAUTH2_CLIENT_CREDENTIALS_TOKEN_URL
    /\ requests[2].method = "GET"
    /\ requests[3].method = "POST"

(***************************************************************************)
(* invoke against a CRM that stores assignments.                           *)
(***************************************************************************)

\* The stored assignments of the user to the permission set, as positions.
StoredFor(user, permissionSetId) ==
    {i \in 1..Len(crm.assignments) :
        /\ crm.assignments[i].AssigneeId = user
        /\ crm.assignments[i].PermissionSetId = permissionSetId}

\* C21: against a CRM that stores assignments and answers a repeated one with a 400
\* duplicate error, invoke is idempotent: when the first run succeeds, it does so
\* with a non-null assignmentId, every later run with the same params succeeds with
\* assignmentId null and the same userId, and the CRM holds exactly one assignment
\* of that user to that permission set.
C21_Idempotent ==
    (Len(runs) >= 1 /\ runs[1].status = "success") =>
        /\ runs[1].assignmentId \notin {Null, Undefined}
        /\ \A k \in 2..Len(runs) :
              /\ runs[k].status = "success"
              /\ runs[k].assignmentId = Null
              /\ runs[k].userId = runs[1].userId
              /\ runs[k].username = runs[1].username
              /\ runs[k].permissionSetId = runs[1].permissionSetId
        /\ Cardinality(StoredFor(runs[1].userId, params.permissionSetId)) = 1

C21_Witness ==
    /\ Len(runs) = 2
    /\ runs[1].status = "success"
    /\ runs[1].assignmentId = "0PaX"
    /\ runs[2].status = "success"
    /\ runs[2].assignmentId = Null
    /\ Len(crm.assignments) = 2
    /\ Cardinality(StoredFor("005A", "0PS1")) = 1
====
